---- MODULE Spec2Model ----
(***************************************************************************)
(* Model of the Klaviyo campaign export script, src/export_campaigns.py:   *)
(* the listing walk with its relationship join and date filter             *)
(* (get_campaigns_with_messages), the metric id cache (get_metric_id),     *)
(* the statistics fetch with its 429 retry (get_campaign_stats) and the    *)
(* orchestration (main).                                                   *)
(*                                                                         *)
(* Every HTTP request is one step: the answer of the remote service is an  *)
(* input of the step, drawn from a small set.  Time is counted in whole    *)
(* seconds of time.sleep.  Timestamps are integers; a date string is the   *)
(* pair of its lexical form and the instant it denotes.                    *)
(***************************************************************************)
EXTENDS Integers, Sequences, FiniteSets, TLC

(* ------------------------------ bounds --------------------------------- *)
\* pages a listing of the remote service may have
MaxPages == 2
\* campaigns a whole listing may carry
MaxRecords == 2
\* campaigns handed to the date filter when it is checked on its own
MaxFilterLen == 2
\* calls of get_metric_id in one process when the cache is checked on its own
MaxCalls == 4
\* entries of the included section when the join loop is run on its own
MaxIncluded == 2

(* ------------------------- program constants --------------------------- *)
\* retry_count < 5
MaxRetries == 5
\* wait_time = (retry_count + 1) * 5
BackoffBase == 5

VARIABLES
    \* main
    pc,                 \* where the process is
    campaigns,          \* main's list: what get_campaigns_with_messages returned
    metric_id,          \* main's local metric_id ("" before it is assigned)
    idx,                \* index (1-based) of the campaign the stats loop is at
    exported,           \* the rows handed to export_to_csv
    RATE_LIMIT_DELAY,   \* configured seconds between two campaigns
    \* get_campaigns_with_messages
    nPages,             \* pages of the listing the remote service holds
    url,                \* page the loop will GET next, 0 for None
    params,             \* TRUE while params is the query dict, FALSE once None
    getLog,             \* the GETs sent to the listing endpoint, in order
    campaigns_data,
    months_ago,         \* the cutoff instant
    no_date_count,
    parse_error_count,
    aborted,            \* the loop left through the non-200 return
    listingStatus,      \* status of the last answer of the listing endpoint, 0 if none
    includedSection,    \* the included section when the join loop is run on its own
    \* get_metric_id
    METRIC_ID_CACHE,    \* the global _METRIC_ID_CACHE, None as NoneStr
    metricGets,         \* GETs sent to the metrics endpoint
    metricLog,          \* the answers the metrics endpoint gave, in order
    returns,            \* values get_metric_id returned, in call order
    \* get_campaign_stats
    retry_count,
    waits,              \* wait_time of each backoff sleep of the current call
    answers,            \* the answers the current call got, in order
    statsLog,           \* the calls main made: campaign and metric id, in order
    lastPost,           \* the last POST sent: campaign, metric id, retry_count
    sinceStats,         \* seconds slept since the last POST, -1 before the first
    lastGap             \* sinceStats as it was when the last POST was sent

vars == << pc, campaigns, metric_id, idx, exported, RATE_LIMIT_DELAY,
           nPages, url, params, getLog, campaigns_data, months_ago,
           no_date_count, parse_error_count, aborted, listingStatus,
           includedSection,
           METRIC_ID_CACHE, metricGets, metricLog, returns,
           retry_count, waits, answers, statsLog, lastPost, sinceStats, lastGap >>

(* ------------------------------ helpers -------------------------------- *)
\* sequences over S of length 0..n
SeqUpTo(S, n) == UNION { [1..k -> S] : k \in 0..n }

(* ------------------------------ dates ---------------------------------- *)
\* A date attribute as the listing delivers it.  form:
\*   "null"    JSON null (.get returns None)
\*   "empty"   the empty string (also the .get default)
\*   "garbage" a non-empty string that is no ISO date
\*   "naive"   an ISO date without UTC offset
\*   "z"       an ISO date ending in Z
\*   "offset"  an ISO date ending in +00:00
\* t is the instant the string denotes (0 where it denotes none).
DateStr(form, t) == [form |-> form, t |-> t]
NullDate == DateStr("null", 0)
EmptyDate == DateStr("empty", 0)
GarbageDate == DateStr("garbage", 0)

\* Python truthiness of the attribute: None and "" are falsy
Truthy(d) == d.form \notin {"null", "empty"}

\* s.replace("Z", "+00:00")
ReplaceZ(d) == IF d.form = "z" THEN DateStr("offset", d.t) ELSE d

\* datetime.fromisoformat: kind "error" is the ValueError, "aware"/"naive" the
\* datetime it builds
FromIsoFormat(d) ==
    CASE d.form = "offset" -> [kind |-> "aware", t |-> d.t]
      [] d.form = "naive" -> [kind |-> "naive", t |-> d.t]
      [] OTHER -> [kind |-> "error", t |-> 0]

\* TryDate with the include-on-failure fallback: a date that cannot be parsed or
\* compared lets the campaign through
TryDate_NoExcept(d, cutoff) ==
    LET p == FromIsoFormat(ReplaceZ(d))
    IN  IF p.kind = "aware" /\ p.t >= cutoff THEN "include"
        ELSE IF p.kind = "aware" THEN "exclude"
        ELSE "include"

\* the body of one try block of the filter loop: parse the attribute and compare
\* with the (timezone-aware) cutoff.  "raise" is any Exception: the ValueError
\* of the parse, or the TypeError of comparing a naive with an aware datetime.
TryDate(d, cutoff) ==
    LET p == FromIsoFormat(ReplaceZ(d))
    IN  CASE p.kind = "error" -> "raise"
          [] p.kind = "naive" -> "raise"
          [] p.t >= cutoff -> "include"
          [] OTHER -> "exclude"

\* Classify falling back to created_at when send_time cannot be parsed
Classify_Fallback(c, cutoff) ==
    LET s == IF Truthy(c.send_time) THEN TryDate(c.send_time, cutoff) ELSE "raise"
    IN  IF Truthy(c.send_time) /\ s # "raise" THEN s
        ELSE IF Truthy(c.created_at)
             THEN (IF TryDate(c.created_at, cutoff) = "raise" THEN "parse_error"
                   ELSE TryDate(c.created_at, cutoff))
        ELSE IF Truthy(c.send_time) THEN "parse_error"
        ELSE "no_date"

\* Classify dropping a campaign whose created_at cannot be parsed without
\* counting it
Classify_SilentSkip(c, cutoff) ==
    IF Truthy(c.send_time)
    THEN (IF TryDate(c.send_time, cutoff) = "raise" THEN "parse_error"
          ELSE TryDate(c.send_time, cutoff))
    ELSE IF Truthy(c.created_at)
    THEN (IF TryDate(c.created_at, cutoff) = "raise" THEN "exclude"
          ELSE TryDate(c.created_at, cutoff))
    ELSE "no_date"

\* one iteration of "for campaign in campaigns_data": which branch the campaign
\* takes.  "include" appends it, "parse_error" and "no_date" count it,
\* "exclude" drops it silently.
Classify(c, cutoff) ==
    IF Truthy(c.send_time)
    THEN (IF TryDate(c.send_time, cutoff) = "raise" THEN "parse_error"
          ELSE TryDate(c.send_time, cutoff))
    ELSE IF Truthy(c.created_at)
    THEN (IF TryDate(c.created_at, cutoff) = "raise" THEN "parse_error"
          ELSE TryDate(c.created_at, cutoff))
    ELSE "no_date"

RECURSIVE FilterLoop(_, _, _)
\* the filter loop over cs, from the accumulated acc = [filtered, parse, nodate]
FilterLoop(cs, cutoff, acc) ==
    IF cs = << >> THEN acc
    ELSE LET k == Classify(Head(cs), cutoff)
         IN  FilterLoop(Tail(cs), cutoff,
                [filtered_campaigns |->
                    IF k = "include" THEN Append(acc.filtered_campaigns, Head(cs))
                    ELSE acc.filtered_campaigns,
                 parse_error_count |->
                    acc.parse_error_count + (IF k = "parse_error" THEN 1 ELSE 0),
                 no_date_count |->
                    acc.no_date_count + (IF k = "no_date" THEN 1 ELSE 0)])

\* the tail of get_campaigns_with_messages, line 155 to the return
DateWindowFilter(cs, cutoff) ==
    FilterLoop(cs, cutoff, [filtered_campaigns |-> << >>,
                            parse_error_count |-> 0, no_date_count |-> 0])

(* ----------------------------- campaigns ------------------------------ *)
\* Python's None where a string is expected
NoneStr == "<None>"
\* Identifiers of campaigns and of campaign messages are positive integers
\* standing for the service's id strings; NoneId is Python's None.
NoneId == 0
\* a key the payload does not carry
Missing == "<missing>"

\* dict.get(key, "") of a content attribute
GetOrEmpty(v) == IF v = Missing THEN "" ELSE v

\* campaign_info as the listing loop builds it from one entry of data (lines
\* 113-130).  campaign_name and status are copied through like campaign_id and
\* are left out.  stats is << >> until campaign.update(stats) adds the nine keys.
\* An entry is [id, created_at, send_time, messages]: messages the ids under
\* relationships.campaign-messages.data (<< >> when the section is absent or empty).
campaign_info(entry) ==
    [campaign_id |-> entry.id,
     created_at |-> entry.created_at,
     send_time |-> entry.send_time,
     message_id |-> IF entry.messages # << >> THEN entry.messages[1] ELSE NoneId,
     subject |-> NoneStr,
     preview_text |-> NoneStr,
     from_email |-> NoneStr,
     from_label |-> NoneStr,
     stats |-> << >>]

RECURSIVE AppendStubs(_, _)
\* "for campaign in data.get('data', [])": campaigns_data.append(campaign_info)
AppendStubs(cd, data) ==
    IF data = << >> THEN cd
    ELSE AppendStubs(Append(cd, campaign_info(Head(data))), Tail(data))

\* index of the first campaign of cd whose message_id is mid, 0 if none
\* ("for campaign_info in campaigns_data: if ...: ...; break")
FirstMatch(cd, mid) ==
    IF \E i \in 1..Len(cd) : cd[i].message_id = mid
    THEN CHOOSE i \in 1..Len(cd) :
            /\ cd[i].message_id = mid
            /\ \A j \in 1..(i - 1) : cd[j].message_id # mid
    ELSE 0

\* JoinItem keeping what an earlier entry wrote: the first entry wins
JoinItem_FirstWins(cd, item) ==
    IF item.type # "campaign-message" THEN cd
    ELSE LET i == FirstMatch(cd, item.id)
         IN  IF i = 0 \/ cd[i].subject # NoneStr THEN cd
             ELSE [cd EXCEPT ![i].subject = GetOrEmpty(item.content.subject),
                             ![i].preview_text = GetOrEmpty(item.content.preview_text),
                             ![i].from_email = GetOrEmpty(item.content.from_email),
                             ![i].from_label = GetOrEmpty(item.content.from_label)]

\* one iteration of "for included_item in data.get('included', [])".
\* An item is [type, id, content]: content the four attributes.content values,
\* each a string or Missing.
JoinItem(cd, item) ==
    IF item.type # "campaign-message" THEN cd
    ELSE LET i == FirstMatch(cd, item.id)
         IN  IF i = 0 THEN cd
             ELSE [cd EXCEPT ![i].subject = GetOrEmpty(item.content.subject),
                             ![i].preview_text = GetOrEmpty(item.content.preview_text),
                             ![i].from_email = GetOrEmpty(item.content.from_email),
                             ![i].from_label = GetOrEmpty(item.content.from_label)]

RECURSIVE JoinIncluded(_, _)
\* the loop over the included section, in document order (lines 135-147)
JoinIncluded(cd, included) ==
    IF included = << >> THEN cd
    ELSE JoinIncluded(JoinItem(cd, Head(included)), Tail(included))

\* the body of the while loop for a 200 answer, lines 109-147
ProcessPage(cd, page) == JoinIncluded(AppendStubs(cd, page.data), page.included)

\* NextUrl ignoring the link: the walk stops after the page
NextUrl_None(page) == 0

\* url = data.get("links", {}).get("next"): 0 is None
NextUrl(page) == page.next

(* --------------------------- statistics -------------------------------- *)
StatKeys == {"recipients", "opens", "opens_unique", "clicks", "clicks_unique",
             "open_rate", "click_rate", "bounced", "delivered"}

\* the all-zero record of lines 238-248, 257-267 and 288-298
ZeroStats == [k \in StatKeys |-> 0]

\* A statistics dict of the report payload maps each key to a number, or to -1
\* when the payload does not carry the key.  Counts are integers.  A rate is a
\* fraction in units of 1/100000 (23450 is 0.2345); a returned rate is a
\* percentage in units of 1/100 (2345 is 23.45).  The rates are binary floats:
\* the field above of the dict holds the rate keys whose product with 100 is a
\* float above the decimal value of the rate times 100 (0.12345 * 100 is
\* 12.3450000000000006), which decides the rounding when the decimal value lies
\* halfway between two hundredths.
StatGet(stats, key) == IF stats[key] = -1 THEN 0 ELSE stats[key]

\* ScaleRate cutting the digits after the second decimal instead of rounding
ScaleRate_Truncate(x, above) == x \div 10

\* round(x * 100, 2) of a fraction x given in 1/100000: the percentage in 1/100,
\* to the nearest; halfway in decimal, the float is on one side and goes there
ScaleRate(x, above) ==
    LET q == x \div 10
        r == x % 10
    IN  IF r < 5 THEN q
        ELSE IF r > 5 THEN q + 1
        ELSE IF above THEN q + 1 ELSE q

\* the dict returned at lines 276-286 for stats = results[0].get("statistics", {})
StatsOf(stats) ==
    [k \in StatKeys |->
        IF k \in {"open_rate", "click_rate"} THEN ScaleRate(StatGet(stats, k), k \in stats.above)
        ELSE StatGet(stats, k)]

(* ------------------------ answers of the service ----------------------- *)
\* An answer to a request: status 0 stands for requests raising (no connection,
\* timeout), decodable for response.json() returning rather than raising.
ErrorStatuses == {429, 500}

\* --- metrics endpoint: data is the list of metric ids of the payload
MetricAnswer(status, decodable, data) ==
    [status |-> status, decodable |-> decodable, data |-> data]
MetricAnswers ==
    { MetricAnswer(0, FALSE, << >>) }
    \cup { MetricAnswer(st, FALSE, << >>) : st \in ErrorStatuses }
    \cup { MetricAnswer(200, FALSE, << >>) }
    \cup { MetricAnswer(200, TRUE, data) : data \in {<< >>, <<"M1">>, <<"M2", "M1">>} }

\* --- report endpoint: results is data.attributes.results, each entry given by
\* its statistics dict
FullStats ==
    [recipients |-> 100, opens |-> 40, opens_unique |-> 30, clicks |-> 7,
     clicks_unique |-> 5, open_rate |-> 23450, click_rate |-> 5005,
     bounced |-> -1, delivered |-> 99, above |-> {}]
StatsAnswer(status, decodable, results) ==
    [status |-> status, decodable |-> decodable, results |-> results]
StatsAnswers ==
    { StatsAnswer(0, FALSE, << >>) }
    \cup { StatsAnswer(st, FALSE, << >>) : st \in ErrorStatuses }
    \cup { StatsAnswer(200, FALSE, << >>) }
    \cup { StatsAnswer(200, TRUE, rs) : rs \in {<< >>, << FullStats >>} }

\* --- listing endpoint
\* instants: the cutoff is 1, 0 lies before it and 2 after it
Times == 0..2
Cutoffs == {1}
SomeContent ==
    [subject |-> "Hello", preview_text |-> Missing,
     from_email |-> "a@b.c", from_label |-> "Shop"]
\* A campaign of the end-to-end runs: its date attributes, and whether it refers
\* to a message of its own that the page includes.  In turn: sent in the window
\* (with and without message); sent before the window but created in it;
\* send_time unparseable and created in the window; no date at all.
MainKind(send_time, created_at, linked) ==
    [dates |-> [send_time |-> send_time, created_at |-> created_at], linked |-> linked]
MainKinds ==
    { MainKind(DateStr("z", 2), EmptyDate, TRUE),
      MainKind(DateStr("z", 2), EmptyDate, FALSE),
      MainKind(DateStr("z", 0), DateStr("z", 2), TRUE),
      MainKind(GarbageDate, DateStr("z", 2), FALSE),
      MainKind(NullDate, NullDate, FALSE) }

\* the page built from the kinds ks, the ids continuing after `have` campaigns
MainEntry(k, id) ==
    [id |-> id, created_at |-> k.dates.created_at, send_time |-> k.dates.send_time,
     messages |-> IF k.linked THEN << id >> ELSE << >>]
RECURSIVE MainIncluded(_, _)
MainIncluded(ks, have) ==
    IF ks = << >> THEN << >>
    ELSE (IF Head(ks).linked
          THEN << [type |-> "campaign-message", id |-> have + 1, content |-> SomeContent] >>
          ELSE << >>) \o MainIncluded(Tail(ks), have + 1)
ListingPage(ks, have, next) ==
    [status |-> 200, decodable |-> TRUE,
     data |-> [i \in 1..Len(ks) |-> MainEntry(ks[i], have + i)],
     included |-> MainIncluded(ks, have),
     next |-> next]
ListingFailure(status) ==
    [status |-> status, decodable |-> FALSE, data |-> << >>, included |-> << >>,
     next |-> 0]
\* what page `page` of a listing of n pages can answer when `have` campaigns came
\* before it: links.next leads to the following page, and is absent on the last
ListingAnswers(page, n, have) ==
    { ListingFailure(st) : st \in {0, 200} \cup ErrorStatuses }
    \cup { ListingPage(ks, have, IF page < n THEN page + 1 ELSE 0) :
             ks \in SeqUpTo(MainKinds, MaxRecords - have) }

(* ---------------------------- get_metric_id ---------------------------- *)
\* Python truthiness of _METRIC_ID_CACHE: None and "" are falsy
CacheSet(cache) == cache # NoneStr /\ cache # ""

\* One call of get_metric_id with the cache as it is and ans the answer the GET
\* would get: the value returned, the cache afterwards, whether a GET was sent
\* and whether the call raised instead of returning.
MetricOutcome(ret, cache, get, raised) ==
    [ret |-> ret, cache |-> cache, get |-> get, raised |-> raised]

\* get_metric_id without the test of the cache at lines 51-52
get_metric_id_NoCache(cache, ans) ==
    CASE ans.status = 0 -> MetricOutcome("", cache, TRUE, TRUE)
      [] ans.status # 200 -> MetricOutcome("PLACEHOLDER", cache, TRUE, FALSE)
      [] ~ans.decodable -> MetricOutcome("", cache, TRUE, TRUE)
      [] ans.data # << >> -> MetricOutcome(ans.data[1], ans.data[1], TRUE, FALSE)
      [] OTHER -> MetricOutcome("PLACEHOLDER", cache, TRUE, FALSE)

\* lines 51-79: the cached value without a request, else the GET and its outcome;
\* only the branch of line 74 assigns the cache
get_metric_id(cache, ans) ==
    IF CacheSet(cache) THEN MetricOutcome(cache, cache, FALSE, FALSE)
    ELSE CASE ans.status = 0 -> MetricOutcome("", cache, TRUE, TRUE)
           [] ans.status # 200 -> MetricOutcome("PLACEHOLDER", cache, TRUE, FALSE)
           [] ~ans.decodable -> MetricOutcome("", cache, TRUE, TRUE)
           [] ans.data # << >> -> MetricOutcome(ans.data[1], ans.data[1], TRUE, FALSE)
           [] OTHER -> MetricOutcome("PLACEHOLDER", cache, TRUE, FALSE)

(* -------------------------- get_campaign_stats ------------------------- *)
\* MayRetry off by one: a sixth retry
MayRetry_OneMore(rc) == rc <= MaxRetries

\* if retry_count < 5
MayRetry(rc) == rc < MaxRetries

\* wait_time without the attempt factor: the same wait before every retry
wait_time_Constant(rc) == BackoffBase

\* wait_time = (retry_count + 1) * 5
wait_time(rc) == (rc + 1) * BackoffBase

\* What one activation of get_campaign_stats does with the answer to its POST:
\* "retry" sleeps wait and calls itself with retry_count + 1, "return" returns
\* stats, "raise" lets the exception of requests.post or response.json() out.
StatsOutcome(kind, wait, stats) == [kind |-> kind, wait |-> wait, stats |-> stats]

\* get_campaign_stats retrying on every status other than 200, not on 429 alone
get_campaign_stats_RetryAll(rc, ans) ==
    CASE ans.status = 0 -> StatsOutcome("raise", 0, ZeroStats)
      [] ans.status # 200 ->
            IF MayRetry(rc) THEN StatsOutcome("retry", wait_time(rc), ZeroStats)
            ELSE StatsOutcome("return", 0, ZeroStats)
      [] ~ans.decodable -> StatsOutcome("raise", 0, ZeroStats)
      [] ans.results # << >> -> StatsOutcome("return", 0, StatsOf(ans.results[1]))
      [] OTHER -> StatsOutcome("return", 0, ZeroStats)

\* lines 227-298: the outcome of one activation at retry_count rc
get_campaign_stats(rc, ans) ==
    CASE ans.status = 0 -> StatsOutcome("raise", 0, ZeroStats)
      [] ans.status = 429 ->
            IF MayRetry(rc) THEN StatsOutcome("retry", wait_time(rc), ZeroStats)
            ELSE StatsOutcome("return", 0, ZeroStats)
      [] ans.status # 200 -> StatsOutcome("return", 0, ZeroStats)
      [] ~ans.decodable -> StatsOutcome("raise", 0, ZeroStats)
      [] ans.results # << >> -> StatsOutcome("return", 0, StatsOf(ans.results[1]))
      [] OTHER -> StatsOutcome("return", 0, ZeroStats)

(* -------------------------------- main --------------------------------- *)
\* main's loop without its sleep
RateLimitSleep_None(delay) == 0

\* time.sleep(RATE_LIMIT_DELAY) after each campaign: the seconds slept
RateLimitSleep(delay) == delay

\* update writing the record over a key of the campaign as well
update_Clobber(c, stats) == [c EXCEPT !.stats = << stats >>, !.send_time = EmptyDate]

\* campaign.update(stats) (line 400): the nine keys of stats are added
update(c, stats) == [c EXCEPT !.stats = << stats >>]

\* the row export_to_csv writes for a campaign (lines 339-357)
Row(c) ==
    [campaign_id |-> c.campaign_id, subject |-> c.subject, send_time |-> c.send_time,
     from_label |-> c.from_label, from_email |-> c.from_email,
     preview_text |-> c.preview_text,
     stats |-> IF c.stats = << >> THEN ZeroStats ELSE c.stats[1]]

\* RATE_LIMIT_DELAY of the script (30.0) and of config.example.py (1.0)
RateLimitDelays == {1, 30}

NoPost == [campaign_id |-> NoneId, metric_id |-> "", retry_count |-> 0]

\* the variables no call has touched yet
Untouched ==
    /\ campaigns = << >>
    /\ metric_id = ""
    /\ idx = 0
    /\ exported = << >>
    /\ url = 1
    /\ params = TRUE
    /\ getLog = << >>
    /\ no_date_count = 0
    /\ parse_error_count = 0
    /\ aborted = FALSE
    /\ listingStatus = 0
    /\ METRIC_ID_CACHE = NoneStr
    /\ metricGets = 0
    /\ metricLog = << >>
    /\ returns = << >>
    /\ retry_count = 0
    /\ waits = << >>
    /\ answers = << >>
    /\ statsLog = << >>
    /\ lastPost = NoPost
    /\ sinceStats = -1
    /\ lastGap = -1

\* main is entered with the API key set: the listing loop is about to send its
\* first GET
Init ==
    /\ pc = "harvest"
    /\ RATE_LIMIT_DELAY \in RateLimitDelays
    /\ nPages \in 1..MaxPages
    /\ campaigns_data = << >>
    /\ months_ago \in Cutoffs
    /\ includedSection = << >>
    /\ Untouched

metricVars == << METRIC_ID_CACHE, metricGets, metricLog, returns >>
statsVars == << retry_count, waits, answers, statsLog, lastPost, sinceStats, lastGap >>
filterVars == << months_ago, no_date_count, parse_error_count >>

\* MainReceives without the return of lines 384-386
MainReceives_NoShortCircuit(list) ==
    /\ campaigns' = list
    /\ pc' = "metric"

\* main after get_campaigns_with_messages returned list (lines 382-389): "if not
\* campaigns: return", else on to get_metric_id
MainReceives(list) ==
    /\ campaigns' = list
    /\ pc' = IF list = << >> THEN "no_campaigns" ELSE "metric"

\* SentParams sending the query with every request
SentParams_Always(u, p) == TRUE

\* params=params if url == f"{BASE_URL}/campaigns/" else None (line 102): whether
\* the GET of page u carries the query, p telling whether params is still the dict
SentParams(u, p) == u = 1 /\ p

\* the GET of one iteration of "while url" (line 102)
ListingRequest ==
    /\ pc = "harvest"
    /\ url # 0
    /\ getLog' = Append(getLog, [page |-> url, params |-> SentParams(url, params)])

\* requests.get raises, or response.json() at line 109 does: main ends by the
\* exception.  Answers is what the listing endpoint can answer to this GET.
ListingRaisesOn(Answers) ==
    /\ ListingRequest
    /\ \E ans \in Answers :
          /\ ans.status = 0 \/ (ans.status = 200 /\ ~ans.decodable)
          /\ listingStatus' = ans.status
    /\ pc' = "raised_listing"
    /\ UNCHANGED << campaigns, metric_id, idx, exported, RATE_LIMIT_DELAY, nPages, url,
                    params, campaigns_data, aborted, includedSection, filterVars,
                    metricVars, statsVars >>

\* a non-200 answer: return campaigns_data (lines 104-107)
ListingNon200On(Answers) ==
    /\ ListingRequest
    /\ \E ans \in Answers :
          /\ ans.status \notin {0, 200}
          /\ listingStatus' = ans.status
    /\ aborted' = TRUE
    /\ MainReceives(campaigns_data)
    /\ UNCHANGED << metric_id, idx, exported, RATE_LIMIT_DELAY, nPages, url, params,
                    campaigns_data, includedSection, filterVars, metricVars,
                    statsVars >>

\* a 200 answer: build and join the page's campaigns, follow links.next, and after
\* the last page filter and return (lines 109-191).  The courtesy sleep of 0.1 s
\* before a next page falls before the first POST and is not counted in sinceStats.
ListingPage200On(Answers) ==
    /\ ListingRequest
    /\ \E ans \in Answers :
          /\ ans.status = 200 /\ ans.decodable
          /\ listingStatus' = ans.status
          /\ LET cd == ProcessPage(campaigns_data, ans)
                 nxt == NextUrl(ans)
                 f == DateWindowFilter(cd, months_ago)
             IN  /\ campaigns_data' = cd
                 /\ url' = nxt
                 /\ IF nxt # 0
                    THEN /\ params' = FALSE
                         /\ UNCHANGED << pc, campaigns, no_date_count, parse_error_count >>
                    ELSE /\ params' = params
                         /\ no_date_count' = f.no_date_count
                         /\ parse_error_count' = f.parse_error_count
                         /\ MainReceives(f.filtered_campaigns)
    /\ UNCHANGED << metric_id, idx, exported, RATE_LIMIT_DELAY, nPages, months_ago,
                    aborted, includedSection, metricVars, statsVars >>

\* the three outcomes of a GET in a run of main
ListingRaises == ListingRaisesOn(ListingAnswers(url, nPages, Len(campaigns_data)))
ListingNon200 == ListingNon200On(ListingAnswers(url, nPages, Len(campaigns_data)))
ListingPage200 == ListingPage200On(ListingAnswers(url, nPages, Len(campaigns_data)))

\* metric_id = get_metric_id() (line 389)
MainGetMetricId ==
    /\ pc = "metric"
    /\ \E ans \in MetricAnswers :
          LET r == get_metric_id(METRIC_ID_CACHE, ans)
          IN  /\ METRIC_ID_CACHE' = r.cache
              /\ metricGets' = metricGets + (IF r.get THEN 1 ELSE 0)
              /\ metricLog' = IF r.get THEN Append(metricLog, ans) ELSE metricLog
              /\ IF r.raised
                 THEN /\ pc' = "raised_metric"
                      /\ UNCHANGED << metric_id, idx, returns >>
                 ELSE /\ pc' = "stats"
                      /\ metric_id' = r.ret
                      /\ idx' = 1
                      /\ returns' = Append(returns, r.ret)
    /\ UNCHANGED << campaigns, exported, RATE_LIMIT_DELAY, nPages, url, params, getLog,
                    campaigns_data, aborted, listingStatus, includedSection, filterVars,
                    statsVars >>

\* the POST of one activation of get_campaign_stats (line 227) for campaigns[idx]
StatsRequest(ans) ==
    /\ pc = "stats"
    /\ lastPost' = [campaign_id |-> campaigns[idx].campaign_id,
                    metric_id |-> metric_id, retry_count |-> retry_count]
    /\ lastGap' = sinceStats
    /\ statsLog' = IF retry_count = 0
                   THEN Append(statsLog, [campaign_id |-> campaigns[idx].campaign_id,
                                          metric_id |-> metric_id])
                   ELSE statsLog
    /\ answers' = Append(IF retry_count = 0 THEN << >> ELSE answers, ans)

\* 429 below the cap: sleep wait_time and call again (lines 230-235)
StatsRetry ==
    \E ans \in StatsAnswers :
        LET o == get_campaign_stats(retry_count, ans)
        IN  /\ o.kind = "retry"
            /\ StatsRequest(ans)
            /\ waits' = Append(IF retry_count = 0 THEN << >> ELSE waits, o.wait)
            /\ sinceStats' = o.wait
            /\ retry_count' = retry_count + 1
            /\ UNCHANGED << pc, campaigns, metric_id, idx, exported, RATE_LIMIT_DELAY,
                            nPages, url, params, getLog, campaigns_data, aborted,
                            listingStatus, includedSection, filterVars, metricVars >>

\* the call returns a record: campaign.update(stats), time.sleep(RATE_LIMIT_DELAY),
\* and after the last campaign export_to_csv (lines 399-405)
StatsReturnOn(Answers) ==
    \E ans \in Answers :
        LET o == get_campaign_stats(retry_count, ans)
            merged == [campaigns EXCEPT ![idx] = update(campaigns[idx], o.stats)]
        IN  /\ o.kind = "return"
            /\ StatsRequest(ans)
            /\ waits' = IF retry_count = 0 THEN << >> ELSE waits
            /\ campaigns' = merged
            /\ sinceStats' = RateLimitSleep(RATE_LIMIT_DELAY)
            /\ retry_count' = 0
            /\ idx' = idx + 1
            /\ IF idx = Len(campaigns)
               THEN /\ pc' = "done"
                    /\ exported' = [i \in 1..Len(merged) |-> Row(merged[i])]
               ELSE UNCHANGED << pc, exported >>
            /\ UNCHANGED << metric_id, RATE_LIMIT_DELAY, nPages, url, params, getLog,
                            campaigns_data, aborted, listingStatus, includedSection,
                            filterVars, metricVars >>

StatsReturn == StatsReturnOn(StatsAnswers)

\* requests.post raises, or response.json() at line 269 does: nothing catches it
StatsRaises ==
    \E ans \in StatsAnswers :
        LET o == get_campaign_stats(retry_count, ans)
        IN  /\ o.kind = "raise"
            /\ StatsRequest(ans)
            /\ pc' = "raised_stats"
            /\ UNCHANGED << campaigns, metric_id, idx, exported, RATE_LIMIT_DELAY,
                            nPages, url, params, getLog, campaigns_data, aborted,
                            listingStatus, includedSection, filterVars, metricVars,
                            retry_count, waits, sinceStats >>

Next ==
    \/ ListingRaises
    \/ ListingNon200
    \/ ListingPage200
    \/ MainGetMetricId
    \/ StatsRetry
    \/ StatsReturn
    \/ StatsRaises

Spec == Init /\ [][Next]_vars

(* ------------------- the date filter on its own ------------------------ *)
\* the date strings the filter is tried on: every form, and for the parseable
\* ones an instant before, at and after the cutoff
FilterDates ==
    { NullDate, EmptyDate, GarbageDate, DateStr("naive", 2), DateStr("offset", 1) }
    \cup { DateStr("z", t) : t \in Times }
FilterEntries ==
    { [id |-> 1, created_at |-> c, send_time |-> s, messages |-> << >>] :
        c \in FilterDates, s \in FilterDates }

\* campaigns_data as the listing loop left it, the filter about to run
InitFilter ==
    /\ pc = "filter"
    /\ RATE_LIMIT_DELAY \in {1}
    /\ nPages = 1
    /\ campaigns_data \in
          { [i \in 1..Len(es) |-> campaign_info([es[i] EXCEPT !.id = i])] :
              es \in SeqUpTo(FilterEntries, MaxFilterLen) }
    /\ months_ago \in Cutoffs
    /\ includedSection = << >>
    /\ Untouched

\* lines 155-191: the filter loop and the return
RunFilter ==
    /\ pc = "filter"
    /\ LET f == DateWindowFilter(campaigns_data, months_ago)
       IN  /\ campaigns' = f.filtered_campaigns
           /\ no_date_count' = f.no_date_count
           /\ parse_error_count' = f.parse_error_count
    /\ pc' = "filtered"
    /\ UNCHANGED << metric_id, idx, exported, RATE_LIMIT_DELAY, nPages, url, params,
                    getLog, campaigns_data, months_ago, aborted, listingStatus,
                    includedSection, metricVars, statsVars >>

NextFilter == RunFilter

SpecFilter == InitFilter /\ [][NextFilter]_vars

(* ------------------- get_metric_id on its own -------------------------- *)
\* a process that calls get_metric_id again and again
InitResolver ==
    /\ pc = "resolver"
    /\ RATE_LIMIT_DELAY \in {1}
    /\ nPages = 1
    /\ campaigns_data = << >>
    /\ months_ago \in Cutoffs
    /\ includedSection = << >>
    /\ Untouched

ResolverCall ==
    /\ pc = "resolver"
    /\ Len(returns) < MaxCalls
    /\ \E ans \in MetricAnswers :
          LET r == get_metric_id(METRIC_ID_CACHE, ans)
          IN  /\ METRIC_ID_CACHE' = r.cache
              /\ metricGets' = metricGets + (IF r.get THEN 1 ELSE 0)
              /\ metricLog' = IF r.get THEN Append(metricLog, ans) ELSE metricLog
              /\ IF r.raised
                 THEN pc' = "raised_metric" /\ UNCHANGED returns
                 ELSE pc' = pc /\ returns' = Append(returns, r.ret)
    /\ UNCHANGED << campaigns, metric_id, idx, exported, RATE_LIMIT_DELAY, nPages, url,
                    params, getLog, campaigns_data, aborted, listingStatus,
                    includedSection, filterVars, statsVars >>

NextResolver == ResolverCall

SpecResolver == InitResolver /\ [][NextResolver]_vars

(* ------------- the listing walk with shared message ids ---------------- *)
\* The walk alone, over listings in which a message id of one page can come again
\* on a later page (the same campaign listed twice while the listing moves, or
\* two campaigns that refer to one message).  Within a page every referenced
\* message is referenced once and is included once, with the content the page
\* shows for it.
MessageIds == 1..3

\* the content page p shows for its messages
PageContent(p) ==
    [subject |-> ToString(p), preview_text |-> ToString(p),
     from_email |-> ToString(p), from_label |-> ToString(p)]

\* the message references of a page's campaigns, NoneId for a campaign without:
\* no message twice on one page
PageRefs(n) ==
    { rs \in SeqUpTo(MessageIds \cup {NoneId}, n) :
        \A i, j \in 1..Len(rs) : (i # j /\ rs[i] # NoneId) => rs[i] # rs[j] }

\* the campaign at position pos of page p: its id tells the page
JoinEntry(p, pos, ref) ==
    [id |-> 10 * p + pos, created_at |-> EmptyDate, send_time |-> DateStr("z", 2),
     messages |-> IF ref = NoneId THEN << >> ELSE << ref >>]
PageOf(c) == c.campaign_id \div 10

\* the page with the references rs: the included section holds the messages
\* referenced, in the order of the campaigns
JoinPage(p, rs, next) ==
    LET linked == SelectSeq(rs, LAMBDA r : r # NoneId)
    IN  [status |-> 200, decodable |-> TRUE,
         data |-> [i \in 1..Len(rs) |-> JoinEntry(p, i, rs[i])],
         included |-> [i \in 1..Len(linked) |->
                          [type |-> "campaign-message", id |-> linked[i],
                           content |-> PageContent(p)]],
         next |-> next]
JoinAnswers(p, n, have) ==
    { ListingFailure(st) : st \in {0, 200} \cup ErrorStatuses }
    \cup { JoinPage(p, rs, IF p < n THEN p + 1 ELSE 0) :
             rs \in PageRefs(MaxRecords - have) }

InitJoin ==
    /\ pc = "harvest"
    /\ RATE_LIMIT_DELAY \in {1}
    /\ nPages \in 1..MaxPages
    /\ campaigns_data = << >>
    /\ months_ago \in Cutoffs
    /\ includedSection = << >>
    /\ Untouched

JoinWalkRaises == ListingRaisesOn(JoinAnswers(url, nPages, Len(campaigns_data)))
JoinWalkNon200 == ListingNon200On(JoinAnswers(url, nPages, Len(campaigns_data)))
JoinWalkPage200 == ListingPage200On(JoinAnswers(url, nPages, Len(campaigns_data)))

NextJoin ==
    \/ JoinWalkRaises
    \/ JoinWalkNon200
    \/ JoinWalkPage200

SpecJoin == InitJoin /\ [][NextJoin]_vars

(* ------------------- the join loop on its own -------------------------- *)
\* The loop over the included section of one page (lines 135-147), run on the
\* stubs of the page: included entries of the type campaign-message with either
\* content, for a message the page refers to or not, and an entry of another type.
OtherContent ==
    [subject |-> "Bye", preview_text |-> "Last call",
     from_email |-> Missing, from_label |-> "Store"]
InclusionItems ==
    { [type |-> "campaign-message", id |-> m, content |-> c] :
        m \in MessageIds, c \in {SomeContent, OtherContent} }
    \cup { [type |-> "template", id |-> 1, content |-> SomeContent] }

\* the stubs of the page built, its included section about to be walked
InitInclusion ==
    /\ pc = "join"
    /\ RATE_LIMIT_DELAY \in {1}
    /\ nPages = 1
    /\ campaigns_data \in
          { AppendStubs(<< >>, JoinPage(1, rs, 0).data) : rs \in PageRefs(MaxRecords) }
    /\ months_ago \in Cutoffs
    /\ includedSection \in SeqUpTo(InclusionItems, MaxIncluded)
    /\ Untouched

\* lines 135-147
RunJoin ==
    /\ pc = "join"
    /\ campaigns_data' = JoinIncluded(campaigns_data, includedSection)
    /\ pc' = "joined"
    /\ UNCHANGED << campaigns, metric_id, idx, exported, RATE_LIMIT_DELAY, nPages, url,
                    params, getLog, aborted, listingStatus, includedSection, filterVars,
                    metricVars, statsVars >>

NextInclusion == RunJoin

SpecInclusion == InitInclusion /\ [][NextInclusion]_vars

(* ----------------- the statistics of a 200 answer --------------------- *)
\* One campaign whose POST is answered 200 with a payload of no, one or two
\* results.  The rates of the first result run over fractions with up to five
\* decimals: absent, 0, 1, below, at and above the middle between two
\* hundredths, the float product on either side of it; the counts are absent, 0
\* or positive.
RateInputs == {-1, 0, 4, 5, 15, 23450, 23455, 23457, 99995, 100000}
CountInputs == {-1, 0, 100}
RateStats ==
    { [recipients |-> n, opens |-> 40, opens_unique |-> -1, clicks |-> 7,
       clicks_unique |-> 5, open_rate |-> o, click_rate |-> c,
       bounced |-> n, delivered |-> 99, above |-> a] :
        n \in CountInputs, o \in RateInputs, c \in {-1, 5005},
        a \in SUBSET {"open_rate", "click_rate"} }
RateAnswers ==
    { StatsAnswer(200, TRUE, << >>) }
    \cup { StatsAnswer(200, TRUE, << st >>) : st \in RateStats }
    \cup { StatsAnswer(200, TRUE, << st, FullStats >>) : st \in RateStats }

\* main at the first campaign of its loop: a listing of one page with one
\* campaign sent in the window was walked and the metric id resolved
StatsCampaigns ==
    ProcessPage(<< >>, ListingPage(<< MainKind(DateStr("z", 2), EmptyDate, TRUE) >>, 0, 0))
InitStats ==
    /\ pc = "stats"
    /\ RATE_LIMIT_DELAY \in {1}
    /\ nPages = 1
    /\ url = 0
    /\ params = TRUE
    /\ getLog = << [page |-> 1, params |-> TRUE] >>
    /\ listingStatus = 200
    /\ aborted = FALSE
    /\ campaigns_data = StatsCampaigns
    /\ months_ago \in Cutoffs
    /\ no_date_count = 0
    /\ parse_error_count = 0
    /\ includedSection = << >>
    /\ campaigns = StatsCampaigns
    /\ METRIC_ID_CACHE = "M1"
    /\ metricGets = 1
    /\ metricLog = << MetricAnswer(200, TRUE, << "M1" >>) >>
    /\ returns = << "M1" >>
    /\ metric_id = "M1"
    /\ idx = 1
    /\ exported = << >>
    /\ retry_count = 0
    /\ waits = << >>
    /\ answers = << >>
    /\ statsLog = << >>
    /\ lastPost = NoPost
    /\ sinceStats = -1
    /\ lastGap = -1

\* the POST answered 200: the record is returned, merged and exported
StatsOn200 == StatsReturnOn(RateAnswers)

NextStats == StatsOn200

SpecStats == InitStats /\ [][NextStats]_vars

(* ============================== claims ================================= *)
Last(s) == s[Len(s)]
Ids(s) == [i \in 1..Len(s) |-> s[i].campaign_id]
Statuses(s) == [i \in 1..Len(s) |-> s[i].status]
\* the arithmetic progression base, 2*base, ..., k*base
Progression(k) == [j \in 1..k |-> j * BackoffBase]

\* The last call of get_campaign_stats that main made has returned: answers and
\* waits are those of that call, and its record is merged into campaigns[idx - 1].
LastCallReturned == pc \in {"stats", "done"} /\ idx > 1 /\ retry_count = 0
LastReturned == campaigns[idx - 1].stats[1]
AllBefore429(as) == \A j \in 1..(Len(as) - 1) : as[j].status = 429

(* C1: get_campaign_stats never raises: whatever the answer to a report      *)
(* request is (200 with or without results, 429, another status, a transport *)
(* failure, an undecodable body), the call returns a record to main.         *)
C1_StatsNeverRaises == pc # "raised_stats"

(* C2: when the report endpoint answers 429 exactly k times (1 <= k <= 5)    *)
(* and then 200, the call returns on attempt k + 1 the statistics of that    *)
(* 200 answer, and the waits between the attempts were base, 2*base, ...,    *)
(* k*base in that order; while a call is retrying, the waits so far are that *)
(* progression up to retry_count.                                            *)
C2_BackoffThenSuccess ==
    /\ (pc = "stats" /\ retry_count > 0) => waits = Progression(retry_count)
    /\ (/\ LastCallReturned
        /\ Len(answers) >= 2
        /\ AllBefore429(answers)
        /\ Last(answers).status = 200)
       => /\ Len(answers) - 1 <= MaxRetries
          /\ waits = Progression(Len(answers) - 1)
          /\ LastReturned = IF Last(answers).results = << >> THEN ZeroStats
                            ELSE StatsOf(Last(answers).results[1])

\* 429 twice, then 200 with results: returned on the third attempt after 5 s and 10 s
C2_Witness ==
    /\ LastCallReturned
    /\ Statuses(answers) = << 429, 429, 200 >>
    /\ waits = << 5, 10 >>
    /\ Last(answers).results = << FullStats >>
    /\ LastReturned = StatsOf(FullStats)
    /\ LastReturned.open_rate = 2345

(* C3: get_campaign_stats ends for every sequence of answers: a call sends   *)
(* at most 6 requests (retry_count 0..5); when every one of them is answered *)
(* 429 the call makes exactly 5 retries, returns the all-zero record and     *)
(* sends nothing more for that campaign.                                     *)
C3_RetriesCapped ==
    /\ retry_count \in 0..MaxRetries
    /\ Len(answers) <= MaxRetries + 1
    /\ lastPost.retry_count <= MaxRetries
    /\ Len(statsLog) <= Len(campaigns)
    /\ (LastCallReturned /\ \A j \in 1..Len(answers) : answers[j].status = 429)
       => /\ Len(answers) = MaxRetries + 1
          /\ waits = Progression(MaxRetries)
          /\ LastReturned = ZeroStats
          /\ Len(statsLog) = idx - 1

C3_Witness ==
    /\ LastCallReturned
    /\ Statuses(answers) = << 429, 429, 429, 429, 429, 429 >>
    /\ LastReturned = ZeroStats
    /\ lastPost.retry_count = 5

(* C4: get_metric_id called twice in one process sends exactly one GET,      *)
(* whatever the first answer was, and the second call returns what the first *)
(* returned.                                                                 *)
C4_TwoCallsOneRequest ==
    Len(returns) >= 2 => (metricGets = 1 /\ returns[2] = returns[1])

(* C5: the metric id cache is write-once: once get_metric_id has stored an   *)
(* identifier in _METRIC_ID_CACHE, no later call changes the cache or sends  *)
(* a GET to the metrics endpoint, and every later call returns that value.   *)
C5_CacheWriteOnce ==
    [][ METRIC_ID_CACHE # NoneStr
        => /\ METRIC_ID_CACHE' = METRIC_ID_CACHE
           /\ metricGets' = metricGets
           /\ metricLog' = metricLog
           /\ pc' = pc
           /\ returns' # returns => returns' = Append(returns, METRIC_ID_CACHE) ]_vars

\* a failed call, the call that stored "M2", and two calls answered from the cache
C5_Witness ==
    /\ METRIC_ID_CACHE = "M2"
    /\ returns = << "PLACEHOLDER", "M2", "M2", "M2" >>
    /\ metricGets = 2

(* ---- the date filter ---- *)
\* the campaign (ids are distinct) was appended to filtered_campaigns
Kept(c) == \E i \in 1..Len(campaigns) : campaigns[i] = c
\* the date string parses to a timezone-aware instant
ParsesAware(d) == FromIsoFormat(ReplaceZ(d)).kind = "aware"
InstantOf(d) == FromIsoFormat(ReplaceZ(d)).t
\* present, but no timestamp can be got from it
Unparseable(d) == Truthy(d) /\ ~ParsesAware(d)
Usable(d) == Truthy(d) /\ ParsesAware(d)
CountOf(cs, Test(_)) == Cardinality({ i \in 1..Len(cs) : Test(cs[i]) })

(* C6 as claimed: the effective timestamp is send_time if present and        *)
(* parseable, otherwise created_at if present and parseable; so a campaign   *)
(* with an unparseable send_time and a parseable created_at >= cutoff is     *)
(* kept, and a campaign counts as unparseable only when neither field yields *)
(* a timestamp.                                                              *)
C6_FallbackOnUnparseable ==
    pc = "filtered" =>
        \A i \in 1..Len(campaigns_data) :
            LET c == campaigns_data[i]
            IN  Kept(c) <=>
                    IF Usable(c.send_time) THEN InstantOf(c.send_time) >= months_ago
                    ELSE Usable(c.created_at) /\ InstantOf(c.created_at) >= months_ago

(* C6 amended: the effective timestamp is send_time if it is present, and    *)
(* created_at only when send_time is absent or empty; a campaign is kept iff *)
(* that one field parses and is >= cutoff.  A campaign whose send_time is    *)
(* present but unparseable is dropped and counted as a parse error, also     *)
(* when its created_at is parseable and >= cutoff.                           *)
C6_EffectiveTimestamp ==
    pc = "filtered" =>
        /\ \A i \in 1..Len(campaigns_data) :
              LET c == campaigns_data[i]
                  eff == IF Truthy(c.send_time) THEN c.send_time ELSE c.created_at
              IN  /\ Kept(c) <=> (Usable(eff) /\ InstantOf(eff) >= months_ago)
                  /\ Unparseable(c.send_time) => ~Kept(c)
        /\ parse_error_count =
              CountOf(campaigns_data,
                      LAMBDA c : \/ Unparseable(c.send_time)
                                 \/ (~Truthy(c.send_time) /\ Unparseable(c.created_at)))

\* an unparseable send_time beside a created_at in the window: dropped, counted
C6_Witness ==
    /\ pc = "filtered"
    /\ \E i \in 1..Len(campaigns_data) :
          /\ campaigns_data[i].send_time = GarbageDate
          /\ campaigns_data[i].created_at = DateStr("z", 2)
          /\ ~Kept(campaigns_data[i])
    /\ parse_error_count = 1
    /\ Len(campaigns) = 1

(* C7: the filter is inclusive and fails closed: a campaign whose send_time  *)
(* equals the cutoff is kept; one whose effective timestamp is before the    *)
(* cutoff is dropped; one with no send_time and an unparseable created_at is *)
(* dropped; one with neither field is dropped; no campaign is kept on a      *)
(* parse failure.                                                            *)
C7_InclusiveFailClosed ==
    pc = "filtered" =>
        \A i \in 1..Len(campaigns_data) :
            LET c == campaigns_data[i]
                eff == IF Truthy(c.send_time) THEN c.send_time ELSE c.created_at
            IN  /\ (Usable(c.send_time) /\ InstantOf(c.send_time) = months_ago) => Kept(c)
                /\ (Usable(eff) /\ InstantOf(eff) < months_ago) => ~Kept(c)
                /\ (~Truthy(c.send_time) /\ Unparseable(c.created_at)) => ~Kept(c)
                /\ (~Truthy(c.send_time) /\ ~Truthy(c.created_at)) => ~Kept(c)
                /\ Kept(c) => (Usable(eff) /\ InstantOf(eff) >= months_ago)

\* one campaign sent exactly at the cutoff and kept, one with only a garbage
\* created_at and dropped
C7_Witness ==
    /\ pc = "filtered"
    /\ Len(campaigns_data) = 2
    /\ Usable(campaigns_data[1].send_time)
    /\ InstantOf(campaigns_data[1].send_time) = months_ago
    /\ campaigns_data[2].send_time = NullDate
    /\ campaigns_data[2].created_at = GarbageDate
    /\ campaigns = << campaigns_data[1] >>
    /\ parse_error_count = 1

(* ---- the listing walk and the run ---- *)
\* get_campaigns_with_messages has left its loop without an exception
HarvestOver == pc \notin {"harvest", "raised_listing"}

(* C8: for a listing of N linked pages that all answer 200 the loop sends at *)
(* most N GETs, one per page in link order, and stops exactly when a page    *)
(* has no links.next; one page with no data and no next link gives an empty  *)
(* list without error.                                                       *)
C8_OneGetPerPage ==
    /\ Len(getLog) <= nPages
    /\ \A i \in 1..Len(getLog) : getLog[i].page = i
    /\ pc = "harvest" => url = Len(getLog) + 1
    /\ (HarvestOver /\ ~aborted) => (Len(getLog) = nPages /\ url = 0)
    /\ (HarvestOver /\ ~aborted /\ campaigns_data = << >>)
       => (campaigns = << >> /\ pc = "no_campaigns")

\* a listing of two pages walked to its end
C8_Witness ==
    /\ HarvestOver
    /\ ~aborted
    /\ nPages = 2
    /\ getLog = << [page |-> 1, params |-> TRUE], [page |-> 2, params |-> FALSE] >>
    /\ Len(campaigns_data) = 2

\* the campaign passes the date filter
Survives(c) == Classify(c, months_ago) = "include"

(* C9: the output is exactly one row per campaign that passed the date       *)
(* filter, in arrival order (page order, then position in the page): nothing *)
(* is duplicated, dropped or reordered, and the stats calls are made in that *)
(* same order.                                                               *)
C9_OutputIsSurvivorsInOrder ==
    pc = "done" =>
        /\ Ids(exported) = Ids(SelectSeq(campaigns_data, Survives))
        /\ Ids(statsLog) = Ids(SelectSeq(campaigns_data, Survives))

C11_Any429Retried ==
    /\ listingStatus = 429 => (pc = "harvest" /\ ~aborted)
    /\ (metricLog # << >> /\ Last(metricLog).status = 429) => returns = << >>

(* C12: no failure of one campaign's stats call aborts the run: once the     *)
(* stats loop is entered, main is in the loop or has exported, and it        *)
(* exports every returned campaign after one stats fetch for each; a         *)
(* non-success answer on the first listing page gives the no-data outcome    *)
(* with no export.                                                           *)
C12_NoRecordFailureAborts ==
    /\ idx >= 1 => pc \in {"stats", "done"}
    /\ pc = "done" =>
          /\ Ids(exported) = Ids(campaigns)
          /\ Ids(statsLog) = Ids(campaigns)
    /\ (HarvestOver /\ Len(getLog) = 1 /\ listingStatus \in ErrorStatuses)
       => (pc = "no_campaigns" /\ exported = << >>)

(* C13: when the harvest yields no campaign, main returns at once: no GET to *)
(* the metrics endpoint, no POST to the report endpoint, no row; otherwise   *)
(* get_metric_id is called exactly once, before the first POST, and every    *)
(* POST of the run carries the identifier it returned.                       *)
C13_ShortCircuitOneResolution ==
    /\ (HarvestOver /\ campaigns = << >>) =>
          /\ pc = "no_campaigns"
          /\ metricGets = 0 /\ returns = << >>
          /\ statsLog = << >> /\ lastPost = NoPost
          /\ exported = << >>
    /\ pc = "metric" => (returns = << >> /\ lastPost = NoPost)
    /\ lastPost # NoPost =>
          /\ campaigns # << >>
          /\ Len(returns) = 1 /\ metricGets = 1
          /\ lastPost.metric_id = returns[1]
          /\ \A i \in 1..Len(statsLog) : statsLog[i].metric_id = returns[1]

\* two campaigns fetched with the one identifier, the second after a retry
C13_Witness ==
    /\ pc = "done"
    /\ returns = << "M2" >>
    /\ Len(statsLog) = 2
    /\ lastPost = [campaign_id |-> campaigns[2].campaign_id, metric_id |-> "M2",
                   retry_count |-> 1]

(* C14: every campaign get_campaigns_with_messages returns has passed the    *)
(* date filter, also when a page after the first answers non-200: no         *)
(* returned campaign has an effective timestamp that is before the cutoff,   *)
(* missing or unparseable; and nothing is returned unless the filter let it. *)
C14_ReturnedPassedFilter ==
    /\ \A i \in 1..Len(campaigns) : Survives(campaigns[i])
    /\ (HarvestOver /\ aborted) =>
          Ids(campaigns) = Ids(SelectSeq(campaigns_data, Survives))

\* the status is neither 200 nor 429 (0 stands for no answer at all)
OtherStatus(st) == st \notin {0, 200, 429}

(* C15: an answer of the report endpoint whose status is neither 200 nor 429 *)
(* is the last answer of its call: get_campaign_stats returns the all-zero   *)
(* record on it, at whatever retry_count it comes, with no request after it  *)
(* and no backoff sleep for it; the waits of the call are those of the 429s  *)
(* before it, and only main's sleep follows.                                 *)
C15_OtherStatusZeroAtOnce ==
    \A j \in 1..Len(answers) :
        OtherStatus(answers[j].status) =>
            /\ j = Len(answers)
            /\ LastCallReturned
            /\ LastReturned = ZeroStats
            /\ waits = Progression(j - 1)
            /\ sinceStats = RATE_LIMIT_DELAY
            /\ lastPost.retry_count = j - 1

\* a 500 after two 429s: zero record at retry_count 2, waits 5 s and 10 s only
C15_Witness ==
    /\ LastCallReturned
    /\ Statuses(answers) = << 429, 429, 500 >>
    /\ LastReturned = ZeroStats
    /\ waits = << 5, 10 >>
    /\ lastPost.retry_count = 2

\* the four content fields of the campaign are those page p shows
HasContentOf(c, p) ==
    /\ c.subject = PageContent(p).subject
    /\ c.preview_text = PageContent(p).preview_text
    /\ c.from_email = PageContent(p).from_email
    /\ c.from_label = PageContent(p).from_label

(* C16: the join is page-local: the content fields of a campaign only ever   *)
(* hold what the campaign's own page included for it, never the content of a *)
(* later page, and a campaign whose message its page includes is joined      *)
(* whatever campaigns of earlier pages refer to the same message id.         *)
C16_JoinPageLocal ==
    \A i \in 1..Len(campaigns_data) :
        LET c == campaigns_data[i]
        IN  IF c.message_id = NoneId THEN c.subject = NoneStr
            ELSE HasContentOf(c, PageOf(c))

\* the campaign as the listing loop built it, before any join
Stub(c) ==
    [c EXCEPT !.subject = NoneStr, !.preview_text = NoneStr,
              !.from_email = NoneStr, !.from_label = NoneStr]
Stubs(cd) == [i \in 1..Len(cd) |-> Stub(cd[i])]

\* the positions of the entries of inc that match the campaign
MatchesOf(c, inc) ==
    { k \in 1..Len(inc) : inc[k].type = "campaign-message" /\ inc[k].id = c.message_id }

\* the campaign with the content of the entry written into it
WithContent(c, item) ==
    [c EXCEPT !.subject = GetOrEmpty(item.content.subject),
              !.preview_text = GetOrEmpty(item.content.preview_text),
              !.from_email = GetOrEmpty(item.content.from_email),
              !.from_label = GetOrEmpty(item.content.from_label)]

\* inc with the entries at k and k + 1 exchanged
SwapAt(inc, k) == [inc EXCEPT ![k] = inc[k + 1], ![k + 1] = inc[k]]

(* C17: after the join loop over a page's included section, a campaign that  *)
(* no entry matches is as it was built (an entry whose id matches no         *)
(* campaign changes none), a campaign that several campaign-message entries  *)
(* match has the fields of the last of them in document order, and           *)
(* exchanging two neighbouring entries with different ids gives the same     *)
(* joined campaigns.                                                         *)
C17_OrphanLastWinsCommute ==
    pc = "joined" =>
        /\ \A i \in 1..Len(campaigns_data) :
              LET c == campaigns_data[i]
                  ks == MatchesOf(c, includedSection)
              IN  IF ks = {} THEN c = Stub(c)
                  ELSE c = WithContent(Stub(c),
                              includedSection[CHOOSE k \in ks : \A l \in ks : l <= k])
        /\ \A k \in 1..(Len(includedSection) - 1) :
              includedSection[k].id # includedSection[k + 1].id
              => JoinIncluded(Stubs(campaigns_data), SwapAt(includedSection, k))
                 = campaigns_data

\* one campaign matched by two entries: it ends with the content of the second
C17_Witness ==
    /\ pc = "joined"
    /\ Len(campaigns_data) = 2
    /\ campaigns_data[2].message_id = 3
    /\ includedSection =
          << [type |-> "campaign-message", id |-> 3, content |-> SomeContent],
             [type |-> "campaign-message", id |-> 3, content |-> OtherContent] >>
    /\ campaigns_data[2].subject = "Bye"
    /\ campaigns_data[2].from_email = ""
    /\ campaigns_data[1] = Stub(campaigns_data[1])

\* the fields a campaign is created with
KeyFields(c) ==
    [campaign_id |-> c.campaign_id, created_at |-> c.created_at,
     send_time |-> c.send_time, message_id |-> c.message_id]

(* C18: no step changes the campaign_id, created_at, send_time or message_id *)
(* of a campaign once it is built: a listing step only appends campaigns and *)
(* writes the four content fields, what main receives are campaigns of the   *)
(* listing as they are, and a step of the stats loop changes nothing but the *)
(* statistics of the campaign it is at, which get the nine keys.             *)
C18_KeyFieldsImmutable ==
    [][ /\ campaigns_data' # campaigns_data =>
              /\ Len(campaigns_data') >= Len(campaigns_data)
              /\ \A i \in 1..Len(campaigns_data) :
                    /\ KeyFields(campaigns_data'[i]) = KeyFields(campaigns_data[i])
                    /\ campaigns_data'[i].stats = campaigns_data[i].stats
        /\ (campaigns' # campaigns /\ pc = "harvest") =>
              \A i \in 1..Len(campaigns') :
                  \E j \in 1..Len(campaigns_data') : campaigns'[i] = campaigns_data'[j]
        /\ (campaigns' # campaigns /\ pc # "harvest") =>
              /\ Len(campaigns') = Len(campaigns)
              /\ \A i \in 1..Len(campaigns) : i # idx => campaigns'[i] = campaigns[i]
              /\ KeyFields(campaigns'[idx]) = KeyFields(campaigns[idx])
              /\ campaigns'[idx] = [campaigns[idx] EXCEPT !.stats = campaigns'[idx].stats]
              /\ DOMAIN campaigns'[idx].stats[1] = StatKeys
      ]_vars

\* a campaign joined and merged with statistics, exported with the id, dates and
\* message reference of its listing entry
C18_Witness ==
    /\ pc = "done"
    /\ campaigns[1].subject = "Hello"
    /\ campaigns[1].stats = << StatsOf(FullStats) >>
    /\ KeyFields(campaigns[1]) = KeyFields(campaigns_data[1])
    /\ KeyFields(campaigns[1]) =
          [campaign_id |-> 1, created_at |-> EmptyDate, send_time |-> DateStr("z", 2),
           message_id |-> 1]

(* C19: only the first GET of the listing carries the query (filter and      *)
(* include); every GET that follows a links.next is sent without query       *)
(* parameters, however many pages the listing has.                           *)
C19_QueryOnFirstRequestOnly ==
    /\ \A i \in 1..Len(getLog) : getLog[i].params <=> (i = 1)
    /\ (pc = "harvest" /\ getLog # << >>) => ~params

\* the second page of a listing asked for without the query
C19_Witness ==
    /\ Len(getLog) = MaxPages
    /\ getLog[1] = [page |-> 1, params |-> TRUE]
    /\ \A i \in 2..Len(getLog) : getLog[i] = [page |-> i, params |-> FALSE]
    /\ listingStatus = 200
    /\ Len(campaigns_data) = MaxRecords

\* the date the filter looks at: send_time when it is present, else created_at
Effective(c) == IF Truthy(c.send_time) THEN c.send_time ELSE c.created_at
BeforeCutoff(c) == Usable(Effective(c)) /\ InstantOf(Effective(c)) < months_ago

ContentFields(c) == { c.subject, c.preview_text, c.from_email, c.from_label }

(* C21: every record handed to export_to_csv has a string, never None, in    *)
(* subject, preview_text, from_email and from_label: a campaign onto which   *)
(* no message was joined has the empty string in each of them; and its nine  *)
(* statistics are numbers.                                                   *)
C21_ContentNeverNone ==
    pc = "done" =>
        \A i \in 1..Len(campaigns) :
            /\ NoneStr \notin ContentFields(campaigns[i])
            /\ NoneStr \notin ContentFields(exported[i])
            /\ campaigns[i].message_id = NoneId => ContentFields(campaigns[i]) = {""}
            /\ DOMAIN exported[i].stats = StatKeys
            /\ \A k \in StatKeys : exported[i].stats[k] \in Int

RateKeys == {"open_rate", "click_rate"}
\* the value of the key in the payload's dict, 0 when the dict has no such key
Given(st, k) == IF st[k] = -1 THEN 0 ELSE st[k]

(* C22: on a 200 answer get_campaign_stats returns the all-zero record when  *)
(* the payload has no results; otherwise, from the first result, each count  *)
(* as it is and 0 for a missing key, and each rate as the percentage with    *)
(* two decimals nearest to 100 times the fraction (0.2345 gives 23.45), so   *)
(* between 0 and 100 when the fraction is between 0 and 1.                   *)
C22_RatesScaledCountsKept ==
    pc = "done" =>
        LET ans == Last(answers)
            out == campaigns[1].stats[1]
        IN  /\ DOMAIN out = StatKeys
            /\ exported[1].stats = out
            /\ IF ans.results = << >> THEN out = ZeroStats
               ELSE LET st == ans.results[1]
                    IN  /\ \A k \in StatKeys \ RateKeys : out[k] = Given(st, k)
                        /\ \A k \in RateKeys :
                              /\ 10 * out[k] - Given(st, k) \in -5..5
                              /\ Given(st, k) \in 0..100000 => out[k] \in 0..10000
                              /\ Given(st, k) % 10 = 0 => 10 * out[k] = Given(st, k)
                              /\ Given(st, k) = 23450 => out[k] = 2345

\* 0.23455 whose product is a float above 23.455 gives 23.46, a rate of 1 gives
\* 100, a missing count gives 0; the second result is not looked at
C22_Witness ==
    /\ pc = "done"
    /\ Len(Last(answers).results) = 2
    /\ Last(answers).results[1].open_rate = 23455
    /\ "open_rate" \in Last(answers).results[1].above
    /\ Last(answers).results[1].click_rate = -1
    /\ Last(answers).results[1].recipients = -1
    /\ campaigns[1].stats[1].open_rate = 2346
    /\ campaigns[1].stats[1].click_rate = 0
    /\ campaigns[1].stats[1].recipients = 0
    /\ campaigns[1].stats[1].opens = 40

====
